---- MODULE Spec2Model ----
(***************************************************************************)
(* bayer-axum (src/main.rs): layered configuration (Settings::new), the    *)
(* startup sequence (main, run and the spawned serve task) and the error   *)
(* record of log_error / build_error_chain.                                *)
(*                                                                         *)
(* Texts read by a parser (addr, port) are sequences of one-character      *)
(* strings, so that parsing is computed.  Error texts are plain strings.   *)
(* An error value is [msgs, back]: msgs[1] is the Display text of the      *)
(* error, msgs[i+1] the text of the source() of link i; back = 0 when the  *)
(* last link has no source, otherwise the last link's source() is link     *)
(* back (a cause cycle).                                                   *)
(***************************************************************************)
EXTENDS Integers, Sequences, FiniteSets, TLC

VARIABLES
    env,            \* the process environment: variable name -> value
    files,          \* the config directory: file name -> [kind, map]
    pc,             \* position of the main task
    settingsResult, \* what Settings::new returned ("None" before the call)
    resolveCount,   \* number of calls of Settings::new so far
    task,           \* state of the spawned serve task
    spawnCount,     \* number of tokio::spawn calls so far
    bound,          \* TRUE once Server::bind has bound the socket
    runResult,      \* what run() returned ("None" before it returns)
    logMessage,     \* log_error: the message argument
    e,              \* log_error: the error argument
    error_chain,    \* log_error: the Vec filled by build_error_chain (link numbers)
    cursor,         \* build_error_chain: its Option argument (0 is None)
    records         \* the error records emitted so far

vars == <<env, files, pc, settingsResult, resolveCount, task, spawnCount, bound,
          runResult, logMessage, e, error_chain, cursor, records>>

----------------------------------------------------------------------------
(* Bounds of the model. *)

\* longest cause chain of an error handed to log_error
MaxCauses == 5
\* recursion depth at which build_error_chain exhausts the stack
MaxStack == 8
\* longest cause chain of the error a serve task returns
MaxServeCauses == 2

----------------------------------------------------------------------------
(* Result and error values. *)

None == [tag |-> "None"]
Ok(v) == [tag |-> "Ok", val |-> v]
Err(err) == [tag |-> "Err", err |-> err]

\* an error without a source
Leaf(text) == [msgs |-> <<text>>, back |-> 0]

\* anyhow's Context::context: a new top-level error whose source is err
Context(text, err) ==
    [msgs |-> <<text>> \o err.msgs,
     back |-> IF err.back = 0 THEN 0 ELSE err.back + 1]

\* Error::source of link i of err; 0 is None
Source(err, i) ==
    IF i < Len(err.msgs) THEN i + 1 ELSE err.back

----------------------------------------------------------------------------
(* Parsing of the two fields of Settings. *)

ENVIRONMENT == "ENVIRONMENT"
SettingsContext == "Error creating configuration settings"

DigitChars == <<"0", "1", "2", "3", "4", "5", "6", "7", "8", "9">>
IsDigit(c) == \E d \in 1..10 : DigitChars[d] = c
DigitVal(c) == (CHOOSE d \in 1..10 : DigitChars[d] = c) - 1

IsNumber(s) == s # <<>> /\ \A i \in 1..Len(s) : IsDigit(s[i])

RECURSIVE ToNat(_)
ToNat(s) ==
    IF s = <<>> THEN 0
    ELSE 10 * ToNat(SubSeq(s, 1, Len(s) - 1)) + DigitVal(s[Len(s)])

\* s split at every sep
RECURSIVE Split(_, _)
Split(s, sep) ==
    IF \A i \in 1..Len(s) : s[i] # sep THEN <<s>>
    ELSE LET i == CHOOSE j \in 1..Len(s) :
                      s[j] = sep /\ \A k \in 1..(j - 1) : s[k] # sep
         IN  <<SubSeq(s, 1, i - 1)>> \o Split(SubSeq(s, i + 1, Len(s)), sep)

\* IpAddr's FromStr on a dotted quad: the four octets, or <<>> when s is no
\* IP literal
ParseIp(s) ==
    LET parts == Split(s, ".")
    IN  IF /\ Len(parts) = 4
           /\ \A i \in 1..4 : /\ IsNumber(parts[i])
                              /\ Len(parts[i]) <= 3
                              /\ ToNat(parts[i]) <= 255
        THEN [i \in 1..4 |-> ToNat(parts[i])]
        ELSE <<>>

\* number of values of u16
U16Range == 65536

----------------------------------------------------------------------------
(* The inputs: configuration texts, files and the process environment. *)

Keys == {"addr", "port"}

AddrTexts ==
    { <<"1", "2", "7", ".", "0", ".", "0", ".", "1">>,
      <<"0", ".", "0", ".", "0", ".", "0">>,
      <<"l", "o", "c", "a", "l", "h", "o", "s", "t">> }

PortTexts ==
    { <<"8", "0", "8", "0">>,
      <<"9", "0", "9", "0">>,
      <<"6", "5", "5", "3", "6">>,
      <<"n", "o", "t", "-", "a", "-", "n", "u", "m", "b", "e", "r">> }

TextsOf(k) == IF k = "addr" THEN AddrTexts ELSE PortTexts

\* the key/value trees a layer can hold
Contents ==
    UNION { {m \in [D -> AddrTexts \cup PortTexts] : \A k \in D : m[k] \in TextsOf(k)} :
            D \in SUBSET Keys }

FileStates ==
    { [kind |-> "missing", map |-> <<>>], [kind |-> "malformed", map |-> <<>>] }
    \cup { [kind |-> "ok", map |-> m] : m \in Contents }

DefaultFile == "config/default"
FileNames == {DefaultFile, "config/dev"}

\* a unit of an environment value that is not valid Unicode
InvalidUnit == "<0xFF>"
IsUnicode(s) == \A i \in 1..Len(s) : s[i] # InvalidUnit

SelectorValues ==
    { <<"d", "e", "v">>, <<"p", "r", "o", "d">>, <<"d", "e", "v", InvalidUnit>> }

\* the String of a text
RECURSIVE TextString(_)
TextString(s) == IF s = <<>> THEN "" ELSE Head(s) \o TextString(Tail(s))

\* Environment::with_prefix("app").separator("__"): the variables that carry
\* the prefix, and the key each maps to
PrefixedKeys == [APP__ADDR |-> "addr", APP__PORT |-> "port"]

Environments ==
    UNION { {v \in [D -> SelectorValues \cup AddrTexts \cup PortTexts] :
                \A n \in D : v[n] \in (IF n = ENVIRONMENT THEN SelectorValues
                                        ELSE TextsOf(PrefixedKeys[n]))} :
            D \in SUBSET ({ENVIRONMENT} \cup DOMAIN PrefixedKeys) }

\* the state of the file called name
FileAt(fs, name) ==
    IF name \in DOMAIN fs THEN fs[name] ELSE [kind |-> "missing", map |-> <<>>]

----------------------------------------------------------------------------
(* Settings::new *)

\* std::env::var: Err when the variable is unset or its value is not Unicode
env_var(envv, name) ==
    IF name \in DOMAIN envv /\ IsUnicode(envv[name])
    THEN Ok(TextString(envv[name]))
    ELSE Err("VarError")

\* FileSources with a profile read even when ENVIRONMENT yields none
FileSources_DefaultProfile(envv) ==
    LET v == env_var(envv, ENVIRONMENT)
    IN  <<DefaultFile>> \o <<"config/" \o (IF v.tag = "Ok" THEN v.val ELSE "dev")>>

\* the file sources of the builder, in the order they are added: the fold
\* over env::var(ENVIRONMENT).iter() adds config/<env> after config/default
FileSources(envv) ==
    LET v == env_var(envv, ENVIRONMENT)
    IN  <<DefaultFile>> \o (IF v.tag = "Ok" THEN <<"config/" \o v.val>> ELSE <<>>)

\* what the Environment source collects
EnvironmentSource(envv) ==
    LET names == DOMAIN PrefixedKeys \cap DOMAIN envv
    IN  [k \in {PrefixedKeys[n] : n \in names} |->
            envv[CHOOSE n \in names : PrefixedKeys[n] = k]]

\* Merge with the earlier source kept where both define a key
Merge_EarlierWins(earlier, later) ==
    [k \in DOMAIN earlier \cup DOMAIN later |->
        IF k \in DOMAIN earlier THEN earlier[k] ELSE later[k]]

\* a later source overrides an earlier one key by key
Merge(earlier, later) ==
    [k \in DOMAIN earlier \cup DOMAIN later |->
        IF k \in DOMAIN later THEN later[k] ELSE earlier[k]]

RECURSIVE MergeFiles(_, _, _)
MergeFiles(fs, names, acc) ==
    IF names = <<>> THEN acc
    ELSE MergeFiles(fs, Tail(names), Merge(acc, FileAt(fs, Head(names)).map))

NotFoundText(name) == "configuration file \"" \o name \o "\" not found"
MalformedText(name) == "error parsing configuration file \"" \o name \o "\""

\* ConfigBuilder::build: every source is collected in order, the first one
\* that cannot be read fails the build; the Environment source is merged last
Build(envv, fs) ==
    LET names == FileSources(envv)
        bad == {i \in 1..Len(names) : FileAt(fs, names[i]).kind # "ok"}
    IN  IF bad # {}
        THEN LET i == CHOOSE j \in bad : \A k \in bad : j <= k
             IN  Err(Leaf(IF FileAt(fs, names[i]).kind = "missing"
                          THEN NotFoundText(names[i])
                          ELSE MalformedText(names[i])))
        ELSE Ok(Merge(MergeFiles(fs, names, <<>>), EnvironmentSource(envv)))

AddrInvalidText == "invalid IP address syntax for key addr"
PortInvalidText == "invalid type: string, expected an integer for key port"
PortRangeText == "invalid value: integer out of range for u16 for key port"
MissingText(k) == "missing field " \o k

\* the u16 of a port text.  A text that is no number is an error.  A number
\* outside u16 is an error when the deserializer of the config crate checks
\* the range and is narrowed (as u16) when it does not: both outcomes.
PortResults(s) ==
    IF ~IsNumber(s) THEN {Err(Leaf(PortInvalidText))}
    ELSE IF ToNat(s) < U16Range THEN {Ok(ToNat(s))}
    ELSE {Err(Leaf(PortRangeText)), Ok(ToNat(s) % U16Range)}

\* Config::try_deserialize into Settings { addr: IpAddr, port: u16 }: the
\* set of possible results.  The entries of the tree are visited in no fixed
\* order and the first one that fails is reported; a missing field is
\* reported once every entry present has been accepted.
try_deserialize(m) ==
    LET hasAddr == "addr" \in DOMAIN m
        hasPort == "port" \in DOMAIN m
        addrErrs == IF hasAddr /\ ParseIp(m["addr"]) = <<>>
                    THEN {Leaf(AddrInvalidText)} ELSE {}
        portRes == IF hasPort THEN PortResults(m["port"]) ELSE {}
        portErrs == {r.err : r \in {q \in portRes : q.tag = "Err"}}
        portOks == {q \in portRes : q.tag = "Ok"}
        accepted == addrErrs = {} /\ (hasPort => portOks # {})
    IN  {Err(x) : x \in addrErrs \cup portErrs}
        \cup (IF ~accepted THEN {}
              ELSE IF ~hasAddr THEN {Err(Leaf(MissingText("addr")))}
              ELSE IF ~hasPort THEN {Err(Leaf(MissingText("port")))}
              ELSE {Ok([addr |-> ParseIp(m["addr"]), port |-> q.val]) : q \in portOks})

\* Settings::new with the context attached to the whole chain of calls
Settings_new_ContextAll(envv, fs) ==
    LET b == Build(envv, fs)
    IN  IF b.tag = "Err" THEN {Err(Context(SettingsContext, b.err))}
        ELSE {IF r.tag = "Err" THEN Err(Context(SettingsContext, r.err)) ELSE r :
              r \in try_deserialize(b.val)}

\* .build()? returns the builder's error as it is; .context(...) wraps an
\* error of try_deserialize
Settings_new(envv, fs) ==
    LET b == Build(envv, fs)
    IN  IF b.tag = "Err" THEN {b}
        ELSE {IF r.tag = "Err" THEN Err(Context(SettingsContext, r.err)) ELSE r :
              r \in try_deserialize(b.val)}

----------------------------------------------------------------------------
(* run: the join of the serve task *)

ServerContext == "Server completed with error"
PanicContext == "Server panicked"
JoinErrorText == "task panicked"
ServeErrorText == "error serving connection"
MainMessage == "bayer-axum exited with ERROR"

CauseText(i) == "cause " \o ToString(i)

\* an error with text top and a chain of n causes
ChainError(top, n) ==
    [msgs |-> <<top>> \o [i \in 1..n |-> CauseText(i)], back |-> 0]

\* Result::context
ResultContext(r, text) ==
    IF r.tag = "Err" THEN Err(Context(text, r.err)) ELSE r

\* what awaiting the JoinHandle yields: the task's own result, or a JoinError
JoinOutcome(t) ==
    IF t.state = "panicked" THEN Err(Leaf(JoinErrorText)) ELSE Ok(t.result)

\* MapServerContext with the tag of the join failure
MapServerContext_PanicTag(j) ==
    IF j.tag = "Ok" THEN Ok(ResultContext(j.val, PanicContext)) ELSE j

\* .map(|server_result| server_result.context("Server completed with error"))
MapServerContext(j) ==
    IF j.tag = "Ok" THEN Ok(ResultContext(j.val, ServerContext)) ELSE j

\* the inner result dropped instead of flattened
AndThen_Discard(r) == IF r.tag = "Ok" THEN Ok("()") ELSE r

\* .and_then(|r| r)
AndThenIdentity(r) == IF r.tag = "Ok" THEN r.val ELSE r

\* the value of run's last expression
run_result(t) ==
    AndThenIdentity(ResultContext(MapServerContext(JoinOutcome(t)), PanicContext))

\* run calling Settings::new again after an error
run_after_settings_Retry(r) == IF r.tag = "Err" THEN "run" ELSE "run_spawn"

\* where run goes after Settings::new()? : the ? returns an error at once
run_after_settings(r) == IF r.tag = "Err" THEN "main_ret" ELSE "run_spawn"

SocketAddr_new(s) == <<s.addr, s.port>>

----------------------------------------------------------------------------
(* log_error and build_error_chain *)

\* build_error_chain stopping once three causes are collected
chain_continues_Capped(chain, cur) == cur # 0 /\ Len(chain) < 3

\* if let Some(e) = e: build_error_chain pushes and recurses
chain_continues(chain, cur) == cur # 0

\* the match with a last arm [s1, s2, s3] and a catch-all arm
log_error_record_ExactThree(message, err, chain) ==
    LET text(i) == err.msgs[chain[i]]
    IN  IF Len(chain) = 1
        THEN [message |-> message, error |-> err.msgs[1], source |-> text(1)]
        ELSE IF Len(chain) = 2
        THEN [message |-> message, error |-> err.msgs[1], source |-> text(1),
              source2 |-> text(2)]
        ELSE IF Len(chain) = 3
        THEN [message |-> message, error |-> err.msgs[1], source |-> text(1),
              source2 |-> text(2), source3 |-> text(3)]
        ELSE [message |-> message, error |-> err.msgs[1]]

\* the match of log_error on error_chain[..]: the fields of the record
log_error_record(message, err, chain) ==
    LET text(i) == err.msgs[chain[i]]
    IN  IF Len(chain) = 0
        THEN [message |-> message, error |-> err.msgs[1]]
        ELSE IF Len(chain) = 1
        THEN [message |-> message, error |-> err.msgs[1], source |-> text(1)]
        ELSE IF Len(chain) = 2
        THEN [message |-> message, error |-> err.msgs[1], source |-> text(1),
              source2 |-> text(2)]
        ELSE [message |-> message, error |-> err.msgs[1], source |-> text(1),
              source2 |-> text(2), source3 |-> text(3)]

----------------------------------------------------------------------------
(* The program. *)

NoTask == [state |-> "none"]

Init ==
    /\ env \in Environments
    /\ files \in [FileNames -> FileStates]
    /\ pc = "main"
    /\ settingsResult = None
    /\ resolveCount = 0
    /\ task = NoTask
    /\ spawnCount = 0
    /\ bound = None
    /\ runResult = None
    /\ logMessage = ""
    /\ e = None
    /\ error_chain = <<>>
    /\ cursor = 0
    /\ records = <<>>

\* main: the subscriber is installed, run() is called
main ==
    /\ pc = "main"
    /\ pc' = "run"
    /\ UNCHANGED <<env, files, settingsResult, resolveCount, task, spawnCount,
                   bound, runResult, logMessage, e, error_chain, cursor, records>>

\* run: let settings = Settings::new()?;
run_settings ==
    /\ pc = "run"
    /\ \E r \in Settings_new(env, files) :
          /\ settingsResult' = r
          /\ pc' = run_after_settings(r)
          /\ runResult' = IF pc' = "main_ret" THEN r ELSE runResult
    /\ resolveCount' = resolveCount + 1
    /\ UNCHANGED <<env, files, task, spawnCount, bound, logMessage, e,
                   error_chain, cursor, records>>

\* run: tokio::spawn(async move { Server::bind(&addr).serve(...).await })
run_spawn ==
    /\ pc = "run_spawn"
    /\ task' = [state |-> "spawned", addr |-> SocketAddr_new(settingsResult.val)]
    /\ spawnCount' = spawnCount + 1
    /\ pc' = "run_await"
    /\ UNCHANGED <<env, files, settingsResult, resolveCount, bound, runResult,
                   logMessage, e, error_chain, cursor, records>>

\* the serve task: Server::bind binds the socket and the server serves
serve_bind ==
    /\ task.state = "spawned"
    /\ bound' = Ok(task.addr)
    /\ task' = [task EXCEPT !.state = "serving"]
    /\ UNCHANGED <<env, files, pc, settingsResult, resolveCount, spawnCount,
                   runResult, logMessage, e, error_chain, cursor, records>>

\* the serve task: the bind or the server fails and the task returns the error
serve_error ==
    /\ task.state \in {"spawned", "serving"}
    /\ \E n \in 0..MaxServeCauses :
          task' = [state |-> "finished", result |-> Err(ChainError(ServeErrorText, n))]
    /\ UNCHANGED <<env, files, pc, settingsResult, resolveCount, spawnCount,
                   bound, runResult, logMessage, e, error_chain, cursor, records>>

\* the serve task: the server future completes without an error
serve_return ==
    /\ task.state = "serving"
    /\ task' = [state |-> "finished", result |-> Ok("()")]
    /\ UNCHANGED <<env, files, pc, settingsResult, resolveCount, spawnCount,
                   bound, runResult, logMessage, e, error_chain, cursor, records>>

\* the serve task panics
serve_panic ==
    /\ task.state \in {"spawned", "serving"}
    /\ task' = [state |-> "panicked"]
    /\ UNCHANGED <<env, files, pc, settingsResult, resolveCount, spawnCount,
                   bound, runResult, logMessage, e, error_chain, cursor, records>>

\* run: the await of the JoinHandle completes and run returns
run_join ==
    /\ pc = "run_await"
    /\ task.state \in {"finished", "panicked"}
    /\ runResult' = run_result(task)
    /\ pc' = "main_ret"
    /\ UNCHANGED <<env, files, settingsResult, resolveCount, task, spawnCount,
                   bound, logMessage, e, error_chain, cursor, records>>

\* main: if let Err(e) = run().await { log_error(...) }
main_ret ==
    /\ pc = "main_ret"
    /\ IF runResult.tag = "Err"
       THEN /\ logMessage' = MainMessage
            /\ e' = runResult.err
            /\ pc' = "log_error"
       ELSE /\ pc' = "done"
            /\ UNCHANGED <<logMessage, e>>
    /\ UNCHANGED <<env, files, settingsResult, resolveCount, task, spawnCount,
                   bound, runResult, error_chain, cursor, records>>

\* log_error: let mut error_chain = Vec::new();
\*            build_error_chain(&mut error_chain, e.source());
log_error ==
    /\ pc = "log_error"
    /\ error_chain' = <<>>
    /\ cursor' = Source(e, 1)
    /\ pc' = "build_error_chain"
    /\ UNCHANGED <<env, files, settingsResult, resolveCount, task, spawnCount,
                   bound, runResult, logMessage, e, records>>

\* build_error_chain: chain.push(e); build_error_chain(chain, e.source())
build_error_chain ==
    /\ pc = "build_error_chain"
    /\ chain_continues(error_chain, cursor)
    /\ Len(error_chain) < MaxStack
    /\ error_chain' = Append(error_chain, cursor)
    /\ cursor' = Source(e, cursor)
    /\ UNCHANGED <<env, files, pc, settingsResult, resolveCount, task, spawnCount,
                   bound, runResult, logMessage, e, records>>

\* build_error_chain returns and the match of log_error emits the record
log_error_emit ==
    /\ pc = "build_error_chain"
    /\ ~chain_continues(error_chain, cursor)
    /\ records' = Append(records, log_error_record(logMessage, e, error_chain))
    /\ pc' = "done"
    /\ UNCHANGED <<env, files, settingsResult, resolveCount, task, spawnCount,
                   bound, runResult, logMessage, e, error_chain, cursor>>

\* build_error_chain recurses until the stack is exhausted: the process aborts
stack_overflow ==
    /\ pc = "build_error_chain"
    /\ chain_continues(error_chain, cursor)
    /\ Len(error_chain) >= MaxStack
    /\ pc' = "aborted"
    /\ UNCHANGED <<env, files, settingsResult, resolveCount, task, spawnCount,
                   bound, runResult, logMessage, e, error_chain, cursor, records>>

Next ==
    \/ main
    \/ run_settings
    \/ run_spawn
    \/ serve_bind
    \/ serve_error
    \/ serve_return
    \/ serve_panic
    \/ run_join
    \/ main_ret
    \/ log_error
    \/ build_error_chain
    \/ log_error_emit

Spec == Init /\ [][Next]_vars

\* log_error taken alone, on every error value of the bounds: chains of up
\* to MaxCauses causes, the last of which may name an earlier link as its source
LogErrors ==
    { [msgs |-> ChainError("error", n).msgs, back |-> b] :
        n \in 0..MaxCauses, b \in 0..(MaxCauses + 1) }

InitLog ==
    /\ env = <<>>
    /\ files = <<>>
    /\ pc = "log_error"
    /\ settingsResult = None
    /\ resolveCount = 0
    /\ task = NoTask
    /\ spawnCount = 0
    /\ bound = None
    /\ runResult = None
    /\ logMessage \in {MainMessage, "failed"}
    /\ e \in {x \in LogErrors : x.back <= Len(x.msgs)}
    /\ error_chain = <<>>
    /\ cursor = 0
    /\ records = <<>>

NextLog ==
    \/ log_error
    \/ build_error_chain
    \/ log_error_emit
    \/ stack_overflow

SpecLog == InitLog /\ [][NextLog]_vars

\* Settings::new taken alone, on every environment and config directory of
\* the bounds
NextSettings ==
    \/ main
    \/ run_settings

SpecSettings == Init /\ [][NextSettings]_vars

----------------------------------------------------------------------------
(* What the claims speak of, stated from the inputs. *)

Resolved == settingsResult # None

\* the selector names a profile
ProfileSelected == ENVIRONMENT \in DOMAIN env /\ IsUnicode(env[ENVIRONMENT])

\* the file config/<value of ENVIRONMENT>
ProfileFile == FileAt(files, "config/" \o TextString(env[ENVIRONMENT]))

EnvVarOf(k) == IF k = "addr" THEN "APP__ADDR" ELSE "APP__PORT"

InDefault(k) == k \in DOMAIN files[DefaultFile].map
InProfile(k) == ProfileSelected /\ k \in DOMAIN ProfileFile.map
InEnv(k) == EnvVarOf(k) \in DOMAIN env

Defined(k) == InDefault(k) \/ InProfile(k) \/ InEnv(k)

\* the text of the last layer that defines k
Winner(k) ==
    IF InEnv(k) THEN env[EnvVarOf(k)]
    ELSE IF InProfile(k) THEN ProfileFile.map[k]
    ELSE files[DefaultFile].map[k]

\* a file the builder reads cannot be read
BuildFails ==
    \/ files[DefaultFile].kind # "ok"
    \/ ProfileSelected /\ ProfileFile.kind # "ok"

SourceFields == <<"source", "source2", "source3">>
Min(a, b) == IF a < b THEN a ELSE b

\* the number of causes of a finite chain
Causes(err) == Len(err.msgs) - 1

\* the record of the claim for a finite chain: message, error and the first
\* three causes at most
ExpectedRecord(message, err) ==
    [f \in {"message", "error"} \cup {SourceFields[k] : k \in 1..Min(Causes(err), 3)} |->
        IF f = "message" THEN message
        ELSE IF f = "error" THEN err.msgs[1]
        ELSE err.msgs[1 + CHOOSE k \in 1..3 : SourceFields[k] = f]]

ServeFailed ==
    \/ task.state = "panicked"
    \/ task.state = "finished" /\ task.result.tag = "Err"

----------------------------------------------------------------------------
(* The claims. *)

\* C1: the layers are merged in the order config/default, config/<ENVIRONMENT>,
\* APP__ variables, and for each key the resolved Settings holds the value of
\* the last layer that defines it (a port as its value in u16).
C1_LayeringPrecedence ==
    (Resolved /\ settingsResult.tag = "Ok") =>
        /\ Defined("addr") /\ Defined("port")
        /\ settingsResult.val.addr = ParseIp(Winner("addr"))
        /\ IsNumber(Winner("port"))
        /\ settingsResult.val.port = ToNat(Winner("port")) % U16Range

\* C1 witness: port is set in config/default and, differently, in APP__PORT,
\* addr only in config/default; the Settings hold the port of APP__PORT
C1_Witness ==
    /\ Resolved /\ settingsResult.tag = "Ok"
    /\ InDefault("port") /\ InEnv("port")
    /\ files[DefaultFile].map["port"] # env["APP__PORT"]
    /\ settingsResult.val.port = ToNat(env["APP__PORT"])
    /\ InDefault("addr") /\ ~InEnv("addr") /\ ~InProfile("addr")
    /\ settingsResult.val.addr = ParseIp(files[DefaultFile].map["addr"])

C3_OptionalLayerSkip ==
    (Resolved /\ ENVIRONMENT \notin DOMAIN env) =>
        /\ \A st \in FileStates :
              settingsResult \in Settings_new(env, [files EXCEPT !["config/dev"] = st])
        /\ (settingsResult.tag = "Err") =>
              \/ files[DefaultFile].kind # "ok"
              \/ \E k \in Keys : ~Defined(k)
              \/ ParseIp(Winner("addr")) = <<>>
              \/ ~IsNumber(Winner("port"))
              \/ ToNat(Winner("port")) >= U16Range

\* C3 witness: ENVIRONMENT unset, no profile file at all, resolution succeeds
C3_Witness ==
    /\ Resolved /\ ENVIRONMENT \notin DOMAIN env
    /\ files["config/dev"].kind = "missing"
    /\ settingsResult.tag = "Ok"

\* C4: for an error with n chained causes the emitted record is exactly
\* message, error and the first min(n, 3) causes as source, source2, source3.
C4_RecordShape ==
    /\ \A i \in 1..Len(records) :
          e.back = 0 /\ records[i] = ExpectedRecord(logMessage, e)
    /\ (pc = "done" /\ e # None) => Len(records) = 1

\* C4 witness: five causes, the record holds the first three and nothing else
C4_Witness ==
    /\ pc = "done" /\ Len(records) = 1
    /\ Causes(e) = 5
    /\ DOMAIN records[1] = {"message", "error", "source", "source2", "source3"}
    /\ records[1].source3 = CauseText(3)

\* C5: when the merged port is no number in 0..65535, the merged addr is no
\* IP literal, or a key is missing from every layer, Settings::new returns
\* an error.
C5_TypeMismatch ==
    (Resolved /\ ~BuildFails
        /\ \/ \E k \in Keys : ~Defined(k)
           \/ Defined("addr") /\ ParseIp(Winner("addr")) = <<>>
           \/ Defined("port") /\ ~IsNumber(Winner("port"))
           \/ Defined("port") /\ IsNumber(Winner("port"))
                /\ ToNat(Winner("port")) >= U16Range)
    => settingsResult.tag = "Err"

\* C6: Settings::new runs once and has returned before the serve task is
\* spawned; the task is spawned, and the socket bound, only after a
\* successful resolution.
C6_ResolveBeforeServe ==
    /\ resolveCount <= 1
    /\ (spawnCount > 0 \/ task # NoTask \/ bound # None) =>
          resolveCount = 1 /\ settingsResult.tag = "Ok"
    /\ (Resolved /\ settingsResult.tag = "Err") =>
          spawnCount = 0 /\ task = NoTask /\ bound = None
    /\ bound # None => bound.val = SocketAddr_new(settingsResult.val)
    /\ pc \in {"main_ret", "log_error", "build_error_chain", "done"} => resolveCount = 1

\* C6 witness: one resolution, then the task spawned and the socket bound
C6_Witness ==
    /\ resolveCount = 1 /\ spawnCount = 1 /\ bound # None
    /\ task.state = "serving"

\* C7: every failure reaches main, which emits exactly one record and ends;
\* the serve task is spawned at most once; a successful run emits nothing.
C7_FatalErrorHandling ==
    /\ spawnCount <= 1
    /\ Len(records) <= 1
    /\ records # <<>> => pc = "done"
    /\ runResult # None =>
          (runResult.tag = "Err" <=> (settingsResult.tag = "Err" \/ ServeFailed))
    /\ pc = "done" =>
          /\ runResult.tag = "Err" =>
                /\ Len(records) = 1
                /\ records[1].message = MainMessage
                /\ records[1].error = runResult.err.msgs[1]
          /\ runResult.tag = "Ok" => records = <<>>

\* C7 witness: the serve task returned an error, one record, the process ended
C7_Witness ==
    /\ pc = "done" /\ Len(records) = 1
    /\ task.state = "finished" /\ task.result.tag = "Err"

\* C8: a failed join is reported as "Server panicked" with the join error as
\* first cause, an error returned by the server as "Server completed with
\* error" with that error as first cause, and no error carries both tags.
C8_DistinctTags ==
    (runResult # None /\ task # NoTask) =>
        /\ task.state = "panicked" =>
              /\ runResult.tag = "Err"
              /\ runResult.err.msgs = <<PanicContext, JoinErrorText>>
        /\ (task.state = "finished" /\ task.result.tag = "Err") =>
              /\ runResult.tag = "Err"
              /\ runResult.err.msgs = <<ServerContext>> \o task.result.err.msgs
        /\ runResult.tag = "Err" =>
              ~(\E i, j \in 1..Len(runResult.err.msgs) :
                    /\ runResult.err.msgs[i] = PanicContext
                    /\ runResult.err.msgs[j] = ServerContext)

\* C8 witness: the serve task panicked and run returned the panicked tag
C8_Witness ==
    /\ runResult # None /\ task.state = "panicked"
    /\ runResult.err.msgs[1] = PanicContext

\* C9 as claimed: the collection stops at three causes, never holds more
\* than three and ends for every chain.
C9_BoundedTraversal ==
    /\ Len(error_chain) <= 3
    /\ pc # "aborted"

\* C9 as amended: build_error_chain has the one exit 'no further cause': it
\* returns only on a finite chain and then holds every cause of it, in order;
\* on a cycle it recurses until the stack is exhausted and no record is
\* emitted; the record holds at most three causes.
C9_FullTraversal ==
    /\ pc = "done" =>
          /\ e.back = 0 /\ cursor = 0
          /\ error_chain = [i \in 1..Causes(e) |-> i + 1]
    /\ pc = "aborted" => e.back # 0 /\ records = <<>>
    /\ (e # None /\ e.back # 0) => pc # "done"
    /\ \A i \in 1..Len(records) :
          Cardinality(DOMAIN records[i] \ {"message", "error"}) <= 3

\* C9 witness: build_error_chain returned holding more than three causes
C9_Witness ==
    /\ pc = "done"
    /\ Len(error_chain) > 3

\* C10: the context "Error creating configuration settings" is attached to a
\* failure of try_deserialize only: a file that cannot be read is reported
\* with the builder's error as top-level error and the context in no field.
C10_ContextOnlyOnDeserialize ==
    (Resolved /\ settingsResult.tag = "Err") =>
        LET msgs == settingsResult.err.msgs
        IN  IF BuildFails
            THEN /\ \A i \in 1..Len(msgs) : msgs[i] # SettingsContext
                 /\ records # <<>> =>
                       /\ records[1].error = msgs[1]
                       /\ \A f \in DOMAIN records[1] : records[1][f] # SettingsContext
            ELSE /\ msgs[1] = SettingsContext
                 /\ Len(msgs) >= 2
                 /\ records # <<>> =>
                       /\ records[1].error = SettingsContext
                       /\ records[1].source = msgs[2]

\* C10 witness: a missing file, reported without the context
C10_Witness ==
    /\ pc = "done" /\ records # <<>>
    /\ BuildFails
    /\ records[1].error = NotFoundText(DefaultFile)

====
